---------------------------- MODULE Spec2Model ----------------------------
(***************************************************************************)
(* Model of swarmauri_crypto_rust (src/pkgs/standards/swarmauri_crypto_rust *)
(* /src/lib.rs): the RustCrypto engine, its three value records KeyRef,     *)
(* AEADCiphertext and WrappedKey, and the callers that hold those records.  *)
(*                                                                          *)
(* The ring crate is not part of the repository.  Its ChaCha20-Poly1305 is  *)
(* modelled by its contract: a keyed, nonce-dependent, length-preserving    *)
(* and invertible byte transform, and a 16-byte tag that is an ideal MAC    *)
(* (deterministic, and collision-free on the inputs the model reaches) of   *)
(* key, nonce, AAD and ciphertext.                                          *)
(***************************************************************************)
EXTENDS Integers, Sequences, FiniteSets, TLC

VARIABLES
    engine,      \* the RustCrypto object: [version]
    keys,        \* the caller's KeyRef objects, by name
    envelope,    \* the AEADCiphertext the caller holds (or NoEnvelope)
    sealed,      \* history: the encrypt call that produced the envelope
    wrappedKey,  \* the WrappedKey the caller holds (or NoWrapped)
    wrapOf,      \* history: the wrap call that produced wrappedKey
    last,        \* the last call made in a sequential session, with its result
    call,        \* per thread: the call in flight (concurrent sessions)
    rngLog,      \* history: every output the secure random source has returned
    encLog,      \* history: envelopes encrypt returned with a generated nonce
    ncalls       \* number of calls entered by the threads

vars == <<engine, keys, envelope, sealed, wrappedKey, wrapOf, last, call,
          rngLog, encLog, ncalls>>

(***************************************************************************)
(* Sizes fixed by the program.                                              *)
(***************************************************************************)
KeyLen == 32
NonceLen == 12
TagLen == 16
PaddingLen == 16

(***************************************************************************)
(* Bounds of the model.                                                     *)
(***************************************************************************)
MaxPlain == 2
MaxCalls == 2

(***************************************************************************)
(* Bytes, options and results.                                              *)
(***************************************************************************)
Fill(n, b) == [i \in 1..n |-> b]

None == [some |-> FALSE, v |-> <<>>]
Some(x) == [some |-> TRUE, v |-> x]

NoValue == "no value"
NoError == [type |-> "none", msg |-> ""]
Ok(x) == [ok |-> TRUE, val |-> x, err |-> NoError]
Err(type, msg) == [ok |-> FALSE, val |-> NoValue, err |-> [type |-> type, msg |-> msg]]
PyValueError(msg) == Err("PyValueError", msg)
PyRuntimeError(msg) == Err("PyRuntimeError", msg)

RECURSIVE SumUpTo(_, _)
SumUpTo(s, n) == IF n = 0 THEN 0 ELSE (s[n] + SumUpTo(s, n - 1)) % 256
SumBytes(s) == SumUpTo(s, Len(s))

Front(s) == SubSeq(s, 1, Len(s) - 1)
LastByte(s) == s[Len(s)]

(***************************************************************************)
(* ring::rand::SystemRandom::fill on a buffer of n bytes: an error, or n    *)
(* bytes of the source's choosing.  The model lets the source choose among  *)
(* a few representative outputs.                                            *)
(***************************************************************************)
RngFail == [ok |-> FALSE, bytes |-> <<>>]
RngOk(bytes) == [ok |-> TRUE, bytes |-> bytes]
RandByte == {0, 1}
RandomBytes(n) == {Fill(n, b) : b \in RandByte}
RngOutcomes(n) == {RngOk(bytes) : bytes \in RandomBytes(n)} \cup {RngFail}
RngNotCalled == [ok |-> FALSE, bytes |-> <<>>]

(***************************************************************************)
(* ring::aead with CHACHA20_POLY1305.                                       *)
(***************************************************************************)
Block(key, nonce) == (SumBytes(key) + 3 * SumBytes(nonce)) % 256

Keystream(block, i) == (block + 17 * i) % 256

ChaCha20(key, nonce, data) ==
    LET block == Block(key, nonce)
    IN  [i \in 1..Len(data) |-> (data[i] + Keystream(block, i)) % 256]

ChaCha20Inverse(key, nonce, data) ==
    LET block == Block(key, nonce)
    IN  [i \in 1..Len(data) |-> (data[i] + 256 - Keystream(block, i)) % 256]

Poly1305Tag(key, nonce, aad, ct) ==
    LET body == <<SumBytes(key), SumBytes(nonce), Len(aad), Len(ct)>> \o aad \o ct
        padded == body \o Fill(TagLen, 0)
    IN  SubSeq(padded, 1, TagLen)

\* aead::Nonce::try_assume_unique_for_key
NonceAccepted(bytes) == Len(bytes) = NonceLen

\* LessSafeKey::seal_in_place_separate_tag: the buffer encrypted in place, and the tag
seal_in_place_separate_tag(key, nonce, aad, in_out) ==
    LET ct == ChaCha20(key, nonce, in_out)
    IN  [in_out |-> ct, tag |-> Poly1305Tag(key, nonce, aad, ct)]

\* LessSafeKey::open_in_place: the buffer is ciphertext followed by the tag
open_in_place(key, nonce, aad, in_out) ==
    IF Len(in_out) < TagLen
    THEN [ok |-> FALSE, plaintext |-> <<>>]
    ELSE LET ct == SubSeq(in_out, 1, Len(in_out) - TagLen)
             received == SubSeq(in_out, Len(in_out) - TagLen + 1, Len(in_out))
         IN  IF Poly1305Tag(key, nonce, aad, ct) = received
             THEN [ok |-> TRUE, plaintext |-> ChaCha20Inverse(key, nonce, ct)]
             ELSE [ok |-> FALSE, plaintext |-> <<>>]

(***************************************************************************)
(* The records.                                                             *)
(***************************************************************************)
KeyRef(kid, version, key_type, uses, material, public) ==
    [kid |-> kid, version |-> version, key_type |-> key_type, uses |-> uses,
     material |-> material, public |-> public]

AEADCiphertext(kid, version, alg, nonce, ct, tag, aad) ==
    [kid |-> kid, version |-> version, alg |-> alg, nonce |-> nonce, ct |-> ct,
     tag |-> tag, aad |-> aad]

WrappedKey(kek_kid, kek_version, wrap_alg, wrapped) ==
    [kek_kid |-> kek_kid, kek_version |-> kek_version, wrap_alg |-> wrap_alg,
     wrapped |-> wrapped]

RustCrypto == [version |-> "0.1.0"]

(***************************************************************************)
(* RustCrypto::encrypt.  rnd is what rng.fill returns if it is called.      *)
(***************************************************************************)
\* fault variant of MaterialAccepted: a shorter key passes
MaterialAcceptedShorter(material) == Len(material) <= KeyLen

MaterialAccepted(material) == Len(material) = KeyLen

\* fault variant of EchoAad: an empty AAD is echoed as Some(empty)
EchoAadAlways(aad_bytes) == Some(aad_bytes)

EchoAad(aad_bytes) == IF aad_bytes = <<>> THEN None ELSE Some(aad_bytes)

EncryptAad(aad) == IF aad.some THEN aad.v ELSE <<>>

\* fault variant of EncryptNonce: the zeroed buffer is used, not the bytes drawn
EncryptNonceZeroed(nonce, rnd) == IF nonce.some THEN nonce.v ELSE Fill(NonceLen, 0)

EncryptNonce(nonce, rnd) == IF nonce.some THEN nonce.v ELSE rnd.bytes

encrypt(key, plaintext, nonce, aad, rnd) ==
    IF ~key.material.some
    THEN PyValueError("Key material is required")
    ELSE IF ~MaterialAccepted(key.material.v)
    THEN PyValueError("Key material must be 32 bytes")
    ELSE IF nonce.some /\ Len(nonce.v) # NonceLen
    THEN PyValueError("Nonce must be 12 bytes")
    ELSE IF ~nonce.some /\ ~rnd.ok
    THEN PyRuntimeError("Failed to generate nonce")
    ELSE LET nonce_bytes == EncryptNonce(nonce, rnd)
             aad_bytes == EncryptAad(aad)
             out == seal_in_place_separate_tag(key.material.v, nonce_bytes,
                                               aad_bytes, plaintext)
         IN  IF ~NonceAccepted(nonce_bytes)
             THEN PyRuntimeError("Invalid nonce")
             ELSE Ok(AEADCiphertext(key.kid, key.version, "CHACHA20-POLY1305",
                                    nonce_bytes, out.in_out, out.tag,
                                    EchoAad(aad_bytes)))

(***************************************************************************)
(* RustCrypto::decrypt.                                                     *)
(***************************************************************************)
\* fault variant of DecryptAad: the stored AAD takes precedence
DecryptAadStoredFirst(aad, ciphertext) ==
    IF ciphertext.aad.some THEN ciphertext.aad.v
    ELSE IF aad.some THEN aad.v
    ELSE <<>>

DecryptAad(aad, ciphertext) ==
    IF aad.some THEN aad.v
    ELSE IF ciphertext.aad.some THEN ciphertext.aad.v
    ELSE <<>>

\* fault variant of Combined: the tag is put before the ciphertext
CombinedTagFirst(ciphertext) == ciphertext.tag \o ciphertext.ct

Combined(ciphertext) == ciphertext.ct \o ciphertext.tag

\* fault variant of decrypt: the envelope must name the key and the algorithm
decryptBound(key, ciphertext, aad) ==
    IF ~key.material.some
    THEN PyValueError("Key material is required")
    ELSE IF ~MaterialAccepted(key.material.v)
    THEN PyValueError("Key material must be 32 bytes")
    ELSE IF \/ ciphertext.kid # key.kid
            \/ ciphertext.version # key.version
            \/ ciphertext.alg # "CHACHA20-POLY1305"
    THEN PyValueError("Envelope does not match the key")
    ELSE IF ~NonceAccepted(ciphertext.nonce)
    THEN PyRuntimeError("Invalid nonce")
    ELSE LET opened == open_in_place(key.material.v, ciphertext.nonce,
                                     DecryptAad(aad, ciphertext),
                                     Combined(ciphertext))
         IN  IF opened.ok
             THEN Ok(opened.plaintext)
             ELSE PyRuntimeError("Decryption failed (authentication error)")

decrypt(key, ciphertext, aad) ==
    IF ~key.material.some
    THEN PyValueError("Key material is required")
    ELSE IF ~MaterialAccepted(key.material.v)
    THEN PyValueError("Key material must be 32 bytes")
    ELSE IF ~NonceAccepted(ciphertext.nonce)
    THEN PyRuntimeError("Invalid nonce")
    ELSE LET opened == open_in_place(key.material.v, ciphertext.nonce,
                                     DecryptAad(aad, ciphertext),
                                     Combined(ciphertext))
         IN  IF opened.ok
             THEN Ok(opened.plaintext)
             ELSE PyRuntimeError("Decryption failed (authentication error)")

(***************************************************************************)
(* RustCrypto::generate_key, wrap, unwrap and the introspection calls.      *)
(***************************************************************************)
generate_key(size, rnd) ==
    IF ~rnd.ok THEN PyRuntimeError("Failed to generate random key")
    ELSE Ok(rnd.bytes)

wrap(kek, dek, rnd) ==
    IF Len(dek) # KeyLen
    THEN PyValueError("DEK must be 32 bytes")
    ELSE IF ~rnd.ok
    THEN PyRuntimeError("Failed to generate padding")
    ELSE Ok(WrappedKey(kek.kid, kek.version, "ECDH-ES+A256KW", dek \o rnd.bytes))

\* fault variant of unwrap: the last 32 bytes are taken
unwrapLastBytes(kek, wrapped) ==
    IF Len(wrapped.wrapped) < KeyLen
    THEN PyValueError("Invalid wrapped key length")
    ELSE Ok(SubSeq(wrapped.wrapped, Len(wrapped.wrapped) - KeyLen + 1,
                   Len(wrapped.wrapped)))

unwrap(kek, wrapped) ==
    IF Len(wrapped.wrapped) < KeyLen
    THEN PyValueError("Invalid wrapped key length")
    ELSE Ok(SubSeq(wrapped.wrapped, 1, KeyLen))

supports ==
    Ok([encrypt |-> <<"CHACHA20-POLY1305">>, decrypt |-> <<"CHACHA20-POLY1305">>,
        wrap |-> <<"ECDH-ES+A256KW">>, unwrap |-> <<"ECDH-ES+A256KW">>,
        seal |-> <<"X25519-SEAL">>, unseal |-> <<"X25519-SEAL">>])

get_version_info(self) ==
    Ok([rust_crypto_version |-> self.version, ring_version |-> "0.17",
        backend |-> "ring + Rust", algorithms |-> "ChaCha20-Poly1305, X25519"])

is_available == Ok(TRUE)

(***************************************************************************)
(* The error kinds of the specification, as the code reports them.          *)
(***************************************************************************)
IsInvalidKey(r) ==
    /\ ~r.ok
    /\ r.err.type = "PyValueError"
    /\ r.err.msg \in {"Key material is required", "Key material must be 32 bytes"}

IsInvalidNonce(r) ==
    /\ ~r.ok
    /\ r.err.type = "PyValueError"
    /\ r.err.msg = "Nonce must be 12 bytes"

IsAuthenticationFailure(r) ==
    /\ ~r.ok
    /\ r.err = [type |-> "PyRuntimeError", msg |-> "Decryption failed (authentication error)"]

(***************************************************************************)
(* The inputs the callers use.                                              *)
(***************************************************************************)
Material0 == Fill(KeyLen, 0)
Material1 == Fill(KeyLen, 7)

InitialKeys ==
    [kA     |-> KeyRef("a", 1, "symmetric", <<"encrypt", "decrypt", "wrap">>,
                       Some(Material0), None),
     kA2    |-> KeyRef("c", 2, "symmetric", <<"encrypt", "decrypt", "wrap">>,
                       Some(Material0), None),
     kB     |-> KeyRef("b", 1, "symmetric", <<"encrypt", "decrypt", "wrap">>,
                       Some(Material1), None),
     kNone  |-> KeyRef("n", 1, "asymmetric-public", <<"wrap">>, None, Some(<<9>>)),
     kShort |-> KeyRef("s", 1, "symmetric", <<"encrypt">>,
                       Some(Fill(KeyLen - 1, 0)), None),
     kLong  |-> KeyRef("l", 1, "symmetric", <<"encrypt">>,
                       Some(Fill(KeyLen + 1, 0)), None)]

KeyNames == DOMAIN InitialKeys

Hello == <<104, 101, 108, 108, 111, 33, 33, 33>>
Plaintexts == {SubSeq(Hello, 1, n) : n \in 0..MaxPlain}

NonceArgs ==
    {None, Some(Fill(NonceLen, 0)), Some(Fill(NonceLen - 1, 0)),
     Some(Fill(NonceLen + 1, 0))}

Deks == {Fill(KeyLen, 5), Fill(KeyLen, 6), Fill(KeyLen - 1, 5), Fill(KeyLen + 1, 5)}

AadArgs == {None, Some(<<>>), Some(<<99>>)}
OtherAads == {Some(<<111>>)}

NoEnvelope == AEADCiphertext("", 0, "", <<>>, <<>>, <<>>, None)
NotSealed ==
    [made |-> FALSE, key |-> "kA", plaintext |-> <<>>, nonce |-> None,
     aad |-> None, out |-> NoEnvelope]

NoWrapped == WrappedKey("", 0, "", <<>>)
NotWrapped == [made |-> FALSE, kek |-> "kA", dek |-> <<>>, out |-> NoWrapped]

Threads == {"t1", "t2"}
Idle == [pc |-> "idle"]

Init ==
    /\ engine = RustCrypto
    /\ keys = InitialKeys
    /\ envelope = NoEnvelope
    /\ sealed = NotSealed
    /\ wrappedKey = NoWrapped
    /\ wrapOf = NotWrapped
    /\ last = [op |-> "new"]
    /\ call = [t \in Threads |-> Idle]
    /\ rngLog = <<>>
    /\ encLog = <<>>
    /\ ncalls = 0

(***************************************************************************)
(* A sequential session: one caller, one call at a time.  The caller holds  *)
(* at most one envelope: it keeps the one encrypt returns, decrypts and     *)
(* edits it, and drops it before it encrypts again.                         *)
(***************************************************************************)
Encrypt(k, p, n, a) ==
    /\ ~sealed.made
    /\ \E rnd \in (IF n.some THEN {RngNotCalled} ELSE RngOutcomes(NonceLen)) :
        LET r == encrypt(keys[k], p, n, a, rnd)
        IN  /\ last' = [op |-> "encrypt", key |-> k, nonce |-> n, aad |-> a,
                        result |-> r]
            /\ envelope' = IF r.ok THEN r.val ELSE NoEnvelope
            /\ sealed' = IF r.ok
                         THEN [made |-> TRUE, key |-> k, plaintext |-> p,
                               nonce |-> n, aad |-> a, out |-> r.val]
                         ELSE NotSealed
            /\ UNCHANGED <<engine, keys, wrappedKey, wrapOf, call, rngLog,
                           encLog, ncalls>>

Decrypt(k, a) ==
    /\ last' = [op |-> "decrypt", key |-> k, aad |-> a,
                result |-> decrypt(keys[k], envelope, a)]
    /\ UNCHANGED <<engine, keys, envelope, sealed, wrappedKey, wrapOf, call,
                   rngLog, encLog, ncalls>>

(***************************************************************************)
(* The caller owns the envelope: every field has a setter, and              *)
(* AEADCiphertext::new builds an envelope from any field values.  The       *)
(* caller edits an envelope that is still as encrypt returned it.           *)
(***************************************************************************)
Pristine == sealed.made /\ envelope = sealed.out

FlipByte(s, i) == [j \in 1..Len(s) |-> IF j = i THEN (s[j] + 1) % 256 ELSE s[j]]

CtEdits(ct) ==
    {ct \o <<0>>} \cup (IF ct = <<>> THEN {} ELSE {FlipByte(ct, 1), Front(ct)})

TagEdits(tag) ==
    {FlipByte(tag, 1), FlipByte(tag, Len(tag)), Front(tag), tag \o <<0>>}

NonceEdits(nonce) ==
    {FlipByte(nonce, 1), Front(nonce), nonce \o <<0>>}

Edited == [op |-> "set"]

SetCt(ct) ==
    /\ Pristine
    /\ envelope' = [envelope EXCEPT !.ct = ct]
    /\ last' = Edited
    /\ UNCHANGED <<engine, keys, sealed, wrappedKey, wrapOf, call, rngLog,
                   encLog, ncalls>>

SetTag(tag) ==
    /\ Pristine
    /\ envelope' = [envelope EXCEPT !.tag = tag]
    /\ last' = Edited
    /\ UNCHANGED <<engine, keys, sealed, wrappedKey, wrapOf, call, rngLog,
                   encLog, ncalls>>

SetNonce(nonce) ==
    /\ Pristine
    /\ envelope' = [envelope EXCEPT !.nonce = nonce]
    /\ last' = Edited
    /\ UNCHANGED <<engine, keys, sealed, wrappedKey, wrapOf, call, rngLog,
                   encLog, ncalls>>

SetAad(aad) ==
    /\ Pristine
    /\ aad # envelope.aad
    /\ envelope' = [envelope EXCEPT !.aad = aad]
    /\ last' = Edited
    /\ UNCHANGED <<engine, keys, sealed, wrappedKey, wrapOf, call, rngLog,
                   encLog, ncalls>>

\* the caller relabels the envelope: kid, version and alg have setters too
Labels(e) ==
    {<<"zz", e.version + 8, "AES-256-GCM">>, <<"zz", e.version + 8, e.alg>>,
     <<e.kid, e.version, "AES-256-GCM">>}

SetLabel(label) ==
    /\ Pristine
    /\ envelope' = [envelope EXCEPT !.kid = label[1], !.version = label[2],
                                    !.alg = label[3]]
    /\ last' = Edited
    /\ UNCHANGED <<engine, keys, sealed, wrappedKey, wrapOf, call, rngLog,
                   encLog, ncalls>>

Drop ==
    /\ sealed.made
    /\ envelope' = NoEnvelope
    /\ sealed' = NotSealed
    /\ last' = [op |-> "new"]
    /\ UNCHANGED <<engine, keys, wrappedKey, wrapOf, call, rngLog, encLog, ncalls>>

\* AEADCiphertext::new with the ct/tag boundary moved by one byte
MoveBoundary(toTag) ==
    /\ Pristine
    /\ toTag => envelope.ct # <<>>
    /\ envelope' =
            IF toTag
            THEN AEADCiphertext(envelope.kid, envelope.version, envelope.alg,
                                envelope.nonce, Front(envelope.ct),
                                <<LastByte(envelope.ct)>> \o envelope.tag,
                                envelope.aad)
            ELSE AEADCiphertext(envelope.kid, envelope.version, envelope.alg,
                                envelope.nonce,
                                envelope.ct \o <<Head(envelope.tag)>>,
                                Tail(envelope.tag), envelope.aad)
    /\ last' = Edited
    /\ UNCHANGED <<engine, keys, sealed, wrappedKey, wrapOf, call, rngLog,
                   encLog, ncalls>>

Next ==
    \/ \E k \in KeyNames, p \in Plaintexts, n \in NonceArgs, a \in AadArgs :
          Encrypt(k, p, n, a)
    \/ \E k \in KeyNames, a \in AadArgs \cup OtherAads : Decrypt(k, a)
    \/ \E ct \in CtEdits(envelope.ct) : SetCt(ct)
    \/ \E tag \in TagEdits(envelope.tag) : SetTag(tag)
    \/ \E nonce \in NonceEdits(envelope.nonce) : SetNonce(nonce)
    \/ \E aad \in AadArgs \cup OtherAads : SetAad(aad)
    \/ \E label \in Labels(envelope) : SetLabel(label)
    \/ \E toTag \in BOOLEAN : MoveBoundary(toTag)
    \/ Drop

Spec == Init /\ [][Next]_vars

(***************************************************************************)
(* A sequential key-wrapping session: the caller holds at most one          *)
(* WrappedKey, unwraps and edits it, and drops it before it wraps again.    *)
(***************************************************************************)
Wrap(k, dek) ==
    /\ ~wrapOf.made
    /\ \E rnd \in (IF Len(dek) # KeyLen THEN {RngNotCalled}
                   ELSE RngOutcomes(PaddingLen)) :
        LET r == wrap(keys[k], dek, rnd)
        IN  /\ last' = [op |-> "wrap", key |-> k, dek |-> dek, result |-> r]
            /\ wrappedKey' = IF r.ok THEN r.val ELSE NoWrapped
            /\ wrapOf' = IF r.ok
                         THEN [made |-> TRUE, kek |-> k, dek |-> dek, out |-> r.val]
                         ELSE NotWrapped
            /\ UNCHANGED <<engine, keys, envelope, sealed, call, rngLog, encLog,
                           ncalls>>

Unwrap(k) ==
    /\ last' = [op |-> "unwrap", key |-> k, result |-> unwrap(keys[k], wrappedKey)]
    /\ UNCHANGED <<engine, keys, envelope, sealed, wrappedKey, wrapOf, call,
                   rngLog, encLog, ncalls>>

WrappedEdits(wrapped) ==
    IF Len(wrapped) < KeyLen THEN {}
    ELSE {FlipByte(wrapped, 1), FlipByte(wrapped, KeyLen),
          FlipByte(wrapped, Len(wrapped)), SubSeq(wrapped, 1, KeyLen),
          SubSeq(wrapped, 1, KeyLen - 1), wrapped \o <<0>>}

SetWrapped(wrapped) ==
    /\ wrapOf.made /\ wrappedKey = wrapOf.out
    /\ wrappedKey' = [wrappedKey EXCEPT !.wrapped = wrapped]
    /\ last' = Edited
    /\ UNCHANGED <<engine, keys, envelope, sealed, wrapOf, call, rngLog, encLog,
                   ncalls>>

DropWrapped ==
    /\ wrapOf.made
    /\ wrappedKey' = NoWrapped
    /\ wrapOf' = NotWrapped
    /\ last' = [op |-> "new"]
    /\ UNCHANGED <<engine, keys, envelope, sealed, call, rngLog, encLog, ncalls>>

NextWrap ==
    \/ \E k \in KeyNames, dek \in Deks : Wrap(k, dek)
    \/ \E k \in KeyNames : Unwrap(k)
    \/ \E wrapped \in WrappedEdits(wrappedKey.wrapped) : SetWrapped(wrapped)
    \/ DropWrapped

SpecWrap == Init /\ [][NextWrap]_vars

(***************************************************************************)
(* Concurrent sessions: threads share the engine, the KeyRef objects, one   *)
(* envelope and one WrappedKey, and call the engine without locking.  A     *)
(* call enters with references to the shared objects, fills its buffer from *)
(* the random source if its code reaches rng.fill, and returns.             *)
(***************************************************************************)
SharedEnvelope ==
    encrypt(InitialKeys.kA, <<104>>, Some(Fill(NonceLen, 0)), Some(<<99>>),
            RngNotCalled).val

SharedWrapped == wrap(InitialKeys.kA, Fill(KeyLen, 5), RngOk(Fill(PaddingLen, 0))).val

InitConc ==
    /\ engine = RustCrypto
    /\ keys = InitialKeys
    /\ envelope = SharedEnvelope
    /\ sealed = [made |-> TRUE, key |-> "kA", plaintext |-> <<104>>,
                 nonce |-> Some(Fill(NonceLen, 0)), aad |-> Some(<<99>>),
                 out |-> SharedEnvelope]
    /\ wrappedKey = SharedWrapped
    /\ wrapOf = [made |-> TRUE, kek |-> "kA", dek |-> Fill(KeyLen, 5),
                 out |-> SharedWrapped]
    /\ last = [op |-> "new"]
    /\ call = [t \in Threads |-> Idle]
    /\ rngLog = <<>>
    /\ encLog = <<>>
    /\ ncalls = 0

ConcKeys == {"kA", "kB", "kNone"}

Request(op, key, plaintext, nonce, aad, size, dek) ==
    [op |-> op, key |-> key, plaintext |-> plaintext, nonce |-> nonce,
     aad |-> aad, size |-> size, dek |-> dek]

Requests ==
    {Request("encrypt", k, <<104>>, n, a, 0, <<>>) :
        k \in ConcKeys, n \in {None, Some(Fill(NonceLen, 0)), Some(Fill(NonceLen + 1, 0))},
        a \in {None, Some(<<99>>)}}
    \cup {Request("decrypt", k, <<>>, None, a, 0, <<>>) :
        k \in ConcKeys, a \in {None, Some(<<111>>)}}
    \cup {Request("generate_key", "kA", <<>>, None, None, n, <<>>) :
        n \in {0, NonceLen, KeyLen}}
    \cup {Request("wrap", k, <<>>, None, None, 0, dek) :
        k \in ConcKeys, dek \in {Fill(KeyLen, 5), Fill(KeyLen - 1, 5)}}
    \cup {Request("unwrap", k, <<>>, None, None, 0, <<>>) : k \in ConcKeys}
    \cup {Request(op, "kA", <<>>, None, None, 0, <<>>) :
        op \in {"supports", "get_version_info", "is_available"}}

\* what the call borrows: &self, &KeyRef, &AEADCiphertext, &WrappedKey
Borrowed(c) ==
    [engine |-> engine, key |-> keys[c.key], envelope |-> envelope,
     wrappedKey |-> wrappedKey]

\* the size of the buffer the call passes to rng.fill, if its code gets there
FillSize(c, b) ==
    CASE c.op = "encrypt" ->
            IF /\ b.key.material.some /\ MaterialAccepted(b.key.material.v)
               /\ ~c.nonce.some
            THEN NonceLen ELSE -1
      [] c.op = "generate_key" -> c.size
      [] c.op = "wrap" -> IF Len(c.dek) = KeyLen THEN PaddingLen ELSE -1
      [] OTHER -> -1

Run(c, b, rnd) ==
    CASE c.op = "encrypt" -> encrypt(b.key, c.plaintext, c.nonce, c.aad, rnd)
      [] c.op = "decrypt" -> decrypt(b.key, b.envelope, c.aad)
      [] c.op = "generate_key" -> generate_key(c.size, rnd)
      [] c.op = "wrap" -> wrap(b.key, c.dek, rnd)
      [] c.op = "unwrap" -> unwrap(b.key, b.wrappedKey)
      [] c.op = "supports" -> supports
      [] c.op = "get_version_info" -> get_version_info(b.engine)
      [] c.op = "is_available" -> is_available

Pending == [ok |-> FALSE, val |-> NoValue, err |-> NoError]

\* the shared objects after call c has run: every method takes &self and
\* shared references, and writes to none of them
\* fault variant of KeysAfter: the call clears the material of the key it used
KeysAfterZeroized(c) == [keys EXCEPT ![c.key].material = None]

KeysAfter(c) == keys

EngineAfter(c) == engine

Enter(t, c) ==
    /\ call[t].pc \in {"idle", "returned"}
    /\ ncalls < MaxCalls
    /\ ncalls' = ncalls + 1
    /\ call' = [call EXCEPT ![t] = [pc |-> "entered", c |-> c, at |-> Borrowed(c),
                                     rnd |-> RngNotCalled, result |-> Pending]]
    /\ UNCHANGED <<engine, keys, envelope, sealed, wrappedKey, wrapOf, last,
                   rngLog, encLog>>

RngFill(t) ==
    /\ call[t].pc = "entered"
    /\ FillSize(call[t].c, Borrowed(call[t].c)) >= 0
    /\ \E rnd \in RngOutcomes(FillSize(call[t].c, Borrowed(call[t].c))) :
        /\ call' = [call EXCEPT ![t].pc = "filled", ![t].rnd = rnd]
        /\ rngLog' = IF rnd.ok THEN Append(rngLog, rnd.bytes) ELSE rngLog
    /\ UNCHANGED <<engine, keys, envelope, sealed, wrappedKey, wrapOf, last,
                   encLog, ncalls>>

Return(t) ==
    LET c == call[t].c
        r == Run(c, Borrowed(c), call[t].rnd)
    IN  /\ \/ call[t].pc = "filled"
           \/ call[t].pc = "entered" /\ FillSize(c, Borrowed(c)) < 0
        /\ call' = [call EXCEPT ![t].pc = "returned", ![t].result = r]
        /\ encLog' = IF c.op = "encrypt" /\ ~c.nonce.some /\ r.ok
                     THEN Append(encLog, [key |-> c.key, nonce |-> r.val.nonce])
                     ELSE encLog
        /\ keys' = KeysAfter(c)
        /\ engine' = EngineAfter(c)
        /\ UNCHANGED <<envelope, sealed, wrappedKey, wrapOf, last, rngLog, ncalls>>

NextConc ==
    \/ \E t \in Threads, c \in Requests : Enter(t, c)
    \/ \E t \in Threads : RngFill(t)
    \/ \E t \in Threads : Return(t)

SpecConc == InitConc /\ [][NextConc]_vars

(***************************************************************************)
(* Claims about a sequential AEAD session (Spec).                           *)
(***************************************************************************)
ValidKey(k) == keys[k].material.some /\ Len(keys[k].material.v) = KeyLen

DecryptedSealed == last.op = "decrypt" /\ sealed.made /\ last.key = sealed.key

SealedAad == IF sealed.aad.some THEN sealed.aad.v ELSE <<>>

\* C1: decrypting, with the same key and the same AAD argument, the envelope
\* that encrypt returned succeeds and returns exactly the plaintext encrypted.
C1_RoundTrip ==
    (DecryptedSealed /\ envelope = sealed.out /\ last.aad = sealed.aad)
        => (last.result.ok /\ last.result.val = sealed.plaintext)

C1_Witness ==
    /\ DecryptedSealed /\ envelope = sealed.out /\ last.aad = sealed.aad
    /\ ~sealed.nonce.some
    /\ sealed.aad.some /\ sealed.aad.v # <<>>
    /\ Len(sealed.plaintext) = MaxPlain
    /\ last.result.ok

\* C2: after any change to ct, to tag or to the AAD in effect at decrypt time,
\* decrypt with the encrypting key fails with the one authentication error.
C2_TamperSensitivity ==
    (/\ DecryptedSealed
     /\ envelope.nonce = sealed.out.nonce
     /\ \/ envelope.ct # sealed.out.ct
        \/ envelope.tag # sealed.out.tag
        \/ DecryptAad(last.aad, envelope) # SealedAad)
        => IsAuthenticationFailure(last.result)

\* C3: encrypt and decrypt with absent or wrong-length key material fail with
\* InvalidKey, encrypt with a valid key and a wrong-length nonce fails with
\* InvalidNonce, and a failed call returns no value.
C3_InputLengthValidation ==
    /\ (last.op \in {"encrypt", "decrypt"} /\ ~ValidKey(last.key))
           => (IsInvalidKey(last.result) /\ last.result.val = NoValue)
    /\ (/\ last.op = "encrypt" /\ ValidKey(last.key)
        /\ last.nonce.some /\ Len(last.nonce.v) # NonceLen)
           => (/\ IsInvalidNonce(last.result) /\ last.result.val = NoValue
               /\ envelope = NoEnvelope)

C3_Witness ==
    /\ last.op = "encrypt" /\ ValidKey(last.key)
    /\ last.nonce.some /\ Len(last.nonce.v) = NonceLen + 1
    /\ IsInvalidNonce(last.result)

\* C4: decrypt with a valid key returns an error for every envelope whose
\* nonce is not 12 bytes or whose tag is not 16 bytes.
C4_MalformedRejected ==
    (/\ last.op = "decrypt" /\ ValidKey(last.key)
     /\ (Len(envelope.nonce) # NonceLen \/ Len(envelope.tag) # TagLen))
        => ~last.result.ok

\* C7: on an envelope whose nonce, ct and tag are as encrypt returned them,
\* decrypt with the encrypting key succeeds exactly when the AAD sealed in
\* equals the supplied argument if one is supplied (empty or not), else the
\* AAD stored on the envelope if there is one, else the empty string.
C7_AadPrecedence ==
    (/\ DecryptedSealed
     /\ envelope.nonce = sealed.out.nonce
     /\ envelope.ct = sealed.out.ct
     /\ envelope.tag = sealed.out.tag)
        => /\ last.aad.some => (last.result.ok <=> last.aad.v = SealedAad)
           /\ (~last.aad.some /\ envelope.aad.some)
                  => (last.result.ok <=> envelope.aad.v = SealedAad)
           /\ (~last.aad.some /\ ~envelope.aad.some)
                  => (last.result.ok <=> SealedAad = <<>>)

C7_Witness ==
    /\ DecryptedSealed
    /\ envelope.nonce = sealed.out.nonce
    /\ envelope.ct = sealed.out.ct
    /\ envelope.tag = sealed.out.tag
    /\ last.aad = Some(<<99>>)
    /\ envelope.aad = Some(<<111>>)
    /\ last.result.ok

\* C8: the envelope of a successful encrypt has a 12-byte nonce (the supplied
\* one if any), a 16-byte tag, ct as long as the plaintext, the key's kid and
\* version, alg CHACHA20-POLY1305, and aad None for an omitted or empty AAD
\* and the supplied AAD otherwise.
C8_EnvelopeShape ==
    (last.op = "encrypt" /\ last.result.ok)
        => LET e == last.result.val
           IN  /\ sealed.made /\ sealed.key = last.key /\ envelope = e
               /\ Len(e.nonce) = NonceLen
               /\ last.nonce.some => e.nonce = last.nonce.v
               /\ Len(e.tag) = TagLen
               /\ Len(e.ct) = Len(sealed.plaintext)
               /\ e.kid = keys[last.key].kid
               /\ e.version = keys[last.key].version
               /\ e.alg = "CHACHA20-POLY1305"
               /\ (~last.aad.some \/ last.aad.v = <<>>) => e.aad = None
               /\ (last.aad.some /\ last.aad.v # <<>>) => e.aad = last.aad

C8_Witness ==
    /\ last.op = "encrypt" /\ last.result.ok
    /\ last.aad = Some(<<>>)
    /\ last.nonce.some
    /\ Len(sealed.plaintext) = MaxPlain
    /\ envelope.aad = None

\* the same key material under other identities, types and uses
Relabelled(key) ==
    {[key EXCEPT !.kid = "other"], [key EXCEPT !.version = key.version + 1],
     [key EXCEPT !.key_type = "asymmetric-private"], [key EXCEPT !.uses = <<>>],
     [key EXCEPT !.kid = "other", !.version = key.version + 1,
                 !.key_type = "asymmetric-private", !.uses = <<>>]}

\* the same nonce, ct, tag and aad under other kid, version and alg
RelabelledEnvelope(e) ==
    {e, [e EXCEPT !.kid = "other"], [e EXCEPT !.version = e.version + 1],
     [e EXCEPT !.alg = "ECDH-ES+A256KW"],
     [e EXCEPT !.kid = "other", !.version = e.version + 1,
               !.alg = "ECDH-ES+A256KW"]}

\* C11: the result of decrypt is the result of every decrypt call that differs
\* only in the key's kid, version, key_type or uses or in the envelope's kid,
\* version or alg; so the envelope as encrypt returned it, or relabelled,
\* decrypts to the plaintext under any KeyRef with the same material.
C11_NoIdentityBinding ==
    last.op = "decrypt"
        => /\ \A key \in Relabelled(keys[last.key]) :
                \A e \in RelabelledEnvelope(envelope) :
                    decrypt(key, e, last.aad) = last.result
           /\ (/\ sealed.made
               /\ keys[last.key].material = keys[sealed.key].material
               /\ envelope.nonce = sealed.out.nonce
               /\ envelope.ct = sealed.out.ct
               /\ envelope.tag = sealed.out.tag
               /\ envelope.aad = sealed.out.aad
               /\ last.aad = sealed.aad)
                  => (last.result.ok /\ last.result.val = sealed.plaintext)

C11_Witness ==
    /\ last.op = "decrypt" /\ sealed.made
    /\ sealed.key = "kA" /\ last.key = "kA2"
    /\ keys["kA2"].kid # keys["kA"].kid
    /\ keys["kA2"].version # keys["kA"].version
    /\ envelope.kid = "zz" /\ envelope.alg = "AES-256-GCM"
    /\ envelope.nonce = sealed.out.nonce
    /\ envelope.ct = sealed.out.ct
    /\ envelope.tag = sealed.out.tag
    /\ Len(sealed.plaintext) = MaxPlain
    /\ last.result.ok /\ last.result.val = sealed.plaintext

(***************************************************************************)
(* Claims about a key-wrapping session (SpecWrap).                          *)
(***************************************************************************)
SameKek(k1, k2) ==
    /\ keys[k1].kid = keys[k2].kid
    /\ keys[k1].version = keys[k2].version
    /\ keys[k1].material = keys[k2].material

\* C5: unwrap returns an error, never a DEK, when it is called with a KEK whose
\* identity or material differs from the wrapping KEK, or with the wrapping KEK
\* on wrapped bytes that were altered.
C5_UnwrapRejects ==
    (/\ last.op = "unwrap" /\ wrapOf.made
     /\ \/ (~SameKek(last.key, wrapOf.kek) /\ wrappedKey = wrapOf.out)
        \/ (last.key = wrapOf.kek /\ wrappedKey.wrapped # wrapOf.out.wrapped))
        => ~last.result.ok

\* C6: unwrap with the wrapping KEK of the WrappedKey that wrap returned
\* succeeds and returns exactly the DEK wrapped, whatever padding was drawn.
C6_UnwrapInverse ==
    (/\ last.op = "unwrap" /\ wrapOf.made
     /\ wrappedKey = wrapOf.out /\ last.key = wrapOf.kek)
        => (last.result.ok /\ last.result.val = wrapOf.dek)

C6_Witness ==
    /\ last.op = "unwrap" /\ wrapOf.made
    /\ wrappedKey = wrapOf.out /\ last.key = wrapOf.kek
    /\ ~keys[last.key].material.some
    /\ Len(wrappedKey.wrapped) = KeyLen + PaddingLen
    /\ last.result.ok

(***************************************************************************)
(* Claims about concurrent sessions (SpecConc).                             *)
(***************************************************************************)
\* C9: no call changes the engine, a KeyRef, the envelope or the WrappedKey,
\* and in every interleaving a call returns what it returns run alone on the
\* objects it was given and the random bytes it drew.
C9_Stateless ==
    /\ engine = RustCrypto
    /\ keys = InitialKeys
    /\ envelope = SharedEnvelope
    /\ wrappedKey = SharedWrapped
    /\ \A t \in Threads :
          call[t].pc = "returned"
              => call[t].result = Run(call[t].c, call[t].at, call[t].rnd)

\* a decrypt that returned its plaintext while an encrypt under the same key,
\* entered before it, is still in flight
C9_Witness ==
    /\ call["t1"].pc = "returned" /\ call["t1"].c.op = "decrypt"
    /\ call["t1"].c.key = "kA" /\ call["t1"].result.ok
    /\ call["t1"].result.val = <<104>>
    /\ call["t2"].pc = "filled" /\ call["t2"].c.op = "encrypt"
    /\ call["t2"].c.key = "kA" /\ call["t2"].rnd.ok

NoRepeats(log) == \A i, j \in DOMAIN log : log[i] = log[j] => i = j

\* C10: every envelope encrypt returns without an explicit nonce carries 12
\* bytes the random source returned, and when the source never repeats an
\* output, two such envelopes under the same key have different nonces.
C10_FreshNonces ==
    /\ \A i \in DOMAIN encLog :
          /\ Len(encLog[i].nonce) = NonceLen
          /\ \E j \in DOMAIN rngLog : rngLog[j] = encLog[i].nonce
    /\ NoRepeats(rngLog)
          => \A i, j \in DOMAIN encLog :
                (i # j /\ encLog[i].key = encLog[j].key)
                    => encLog[i].nonce # encLog[j].nonce

C10_Witness ==
    /\ Len(encLog) >= 2
    /\ encLog[1].key = encLog[2].key
    /\ NoRepeats(rngLog)
    /\ encLog[1].nonce # encLog[2].nonce

=============================================================================
